---- MODULE Spec2Model ----
(***************************************************************************)
(* A model of multiverse-ecs: the identity token (unique.rs), the slot     *)
(* arena HandleMap (handle_map.rs), the node graph Universe (universe.rs,  *)
(* node.rs) and the classes of components (class.rs).                      *)
(*                                                                         *)
(* Option<T> is modelled as a sequence of length at most one: <<>> is None *)
(* and <<x>> is Some(x).  Vec indices are 0-based as in the source; the    *)
(* slot with index i is element i + 1 of the modelling sequence.           *)
(* A panic ends the run: the state reached at the panic is kept and no     *)
(* further call is made.                                                   *)
(***************************************************************************)
EXTENDS Integers, Sequences, FiniteSets, TLC

\* Bounds of the model.
MaxInserts == 3
MaxNodes == 4
MaxReparents == 1
MaxOther == 1
MaxUniques == 4
MaxQueryNodes == 3

\* The values stored in the arena.
Vals == {"a", "b"}

\* The threads calling Unique::new.
Threads == {1, 2}

VARIABLES
    next_id,      \* unique.rs NEXT_ID: the process-wide counter
    arena,        \* a HandleMap, [unique, values]; values is a sequence of slots
    foreign,      \* a second HandleMap: the source of foreign handles
    returned,     \* every handle insert returned on the arena, in call order, with its value
    last,         \* the last call made on the arena and what it returned
    nodes,        \* Universe.nodes: the HandleMap of nodes, [unique, values]
    roots,        \* Universe.roots
    other,        \* a second Universe, [nodes, roots]: the source of foreign handles
    reparents,    \* the number of change_parent calls made so far
    call,         \* the last call made on the Universe and what it returned
    lock,         \* the threads holding the RwLock of NEXT_ID
    pc,           \* where each thread is in Unique::new
    local,        \* each thread's local id in Unique::new
    made          \* the Uniques made so far, by Unique::new or by clone

avars == <<arena, foreign, returned, last>>
uvars == <<nodes, roots, other, reparents, call>>
tvars == <<lock, pc, local, made>>
vars == <<next_id, avars, uvars, tvars>>

----------------------------------------------------------------------------
(* Option *)

None == <<>>
Some(x) == <<x>>
IsSome(o) == o # <<>>
Unwrap(o) == o[1]

----------------------------------------------------------------------------
(* unique.rs *)

\* Unique::new with a stuck counter: the id is read but the increment is lost.
UniqueNewStuck(n) == n

\* Unique::new: the id handed out, which is also the counter's new value.
UniqueNew(n) == n + 1

\* The counter after n further calls of Unique::new.
RECURSIVE CounterAfter(_, _)
CounterAfter(id, n) == IF n = 0 THEN id ELSE CounterAfter(UniqueNew(id), n - 1)

\* A lock that grants write access while another thread holds it.
RwLock__writeShared(holders) == TRUE

\* NEXT_ID.write(): granted when no thread holds the lock, otherwise the caller waits.
RwLock__write(holders) == holders = {}

\* Clone: the Arc is cloned, the id it points to is the same.
Unique__clone(unique) == unique

\* PartialEq: Arc<u64> compares the values pointed to.
Unique__eq(a, b) == a = b

----------------------------------------------------------------------------
(* handle_map.rs: HandleMapValue *)

\* HandleMapValue::None; the unique and value fields of an empty slot are never read.
EmptySlot == [occ |-> FALSE, unique |-> 0, value |-> "-"]

\* HandleMapValue::Some(unique, value)
SomeSlot(unique, value) == [occ |-> TRUE, unique |-> unique, value |-> value]

is_none(slot) == ~slot.occ

as_ref(slot) ==
    IF slot.occ THEN Some([unique |-> slot.unique, value |-> slot.value]) ELSE None

\* as_mut hands out the same pair as as_ref, mutably.
as_mut(slot) == as_ref(slot)

\* take: the slot after the call and the pair taken out of it.
take(slot) ==
    IF slot.occ
    THEN [slot |-> EmptySlot, out |-> Some([unique |-> slot.unique, value |-> slot.value])]
    ELSE [slot |-> slot, out |-> None]

----------------------------------------------------------------------------
(* handle_map.rs: Handle and HandleMap *)

Handle(mu, u, i) == [map_unique |-> mu, unique |-> u, index |-> i]

\* first_none that finds the last empty slot instead of the first.
first_noneLast(slots) ==
    LET empties == {i \in 0 .. Len(slots) - 1 : is_none(slots[i + 1])}
    IN  IF empties = {} THEN None
        ELSE Some(CHOOSE i \in empties : \A j \in empties : i >= j)

\* first_none: the position of the first empty slot.
first_none(slots) ==
    LET empties == {i \in 0 .. Len(slots) - 1 : is_none(slots[i + 1])}
    IN  IF empties = {} THEN None
        ELSE Some(CHOOSE i \in empties : \A j \in empties : i <= j)

\* insert that stamps slot and handle with the arena's token: no fresh token per insertion.
insertArenaToken(slots, mu, u, value) ==
    LET index == first_none(slots)
    IN  IF IsSome(index)
        THEN [slots  |-> [slots EXCEPT ![Unwrap(index) + 1] = SomeSlot(mu, value)],
              handle |-> Handle(mu, mu, Unwrap(index))]
        ELSE [slots  |-> Append(slots, SomeSlot(mu, value)),
              handle |-> Handle(mu, mu, Len(slots))]

\* insert whose slot is stamped with the arena's own token instead of the fresh one.
insertStaleStamp(slots, mu, u, value) ==
    LET index == first_none(slots)
    IN  IF IsSome(index)
        THEN [slots  |-> [slots EXCEPT ![Unwrap(index) + 1] = SomeSlot(mu, value)],
              handle |-> Handle(mu, u, Unwrap(index))]
        ELSE [slots  |-> Append(slots, SomeSlot(mu, value)),
              handle |-> Handle(mu, u, Len(slots))]

\* insert, given the fresh token u that Unique::new handed out: the slots after
\* the call and the handle returned.
insert(slots, mu, u, value) ==
    LET index == first_none(slots)
    IN  IF IsSome(index)
        THEN [slots  |-> [slots EXCEPT ![Unwrap(index) + 1] = SomeSlot(u, value)],
              handle |-> Handle(mu, u, Unwrap(index))]
        ELSE [slots  |-> Append(slots, SomeSlot(u, value)),
              handle |-> Handle(mu, u, Len(slots))]

\* remove: Vec::get_mut(handle.index), then take, then the value of the pair.
\* Neither handle.unique nor handle.map_unique is read.
remove(slots, handle) ==
    IF handle.index < Len(slots)
    THEN LET t == take(slots[handle.index + 1])
         IN  [slots |-> [slots EXCEPT ![handle.index + 1] = t.slot],
              out   |-> IF IsSome(t.out) THEN Some(Unwrap(t.out).value) ELSE None]
    ELSE [slots |-> slots, out |-> None]

\* len that counts the occupied slots only.
lenLive(slots) == Cardinality({i \in 1 .. Len(slots) : ~is_none(slots[i])})

\* len: the length of the internal vector.
len(slots) == Len(slots)

\* is_empty: whether the internal vector is empty.
is_empty(slots) == Len(slots) = 0

\* self.values[handle.index] panics when the index is out of range.
IndexPanics(slots, handle) == handle.index >= Len(slots)

\* get, for an index in range.
get(slots, handle) ==
    LET v == as_ref(slots[handle.index + 1])
    IN  IF IsSome(v)
        THEN IF Unwrap(v).unique = handle.unique THEN Some(Unwrap(v).value) ELSE None
        ELSE None

\* get_mut, for an index in range.
get_mut(slots, handle) ==
    LET v == as_mut(slots[handle.index + 1])
    IN  IF IsSome(v)
        THEN IF Unwrap(v).unique = handle.unique THEN Some(Unwrap(v).value) ELSE None
        ELSE None

\* contains, for an index in range.
contains(slots, handle) ==
    LET v == as_ref(slots[handle.index + 1])
    IN  IF IsSome(v) THEN Unwrap(v).unique = handle.unique ELSE FALSE

\* HandleMapValues::next at position pos of the slice iterator: the item returned.
\* slice::Iter::next gives None at the end; and_then gives None for an empty slot.
values_next(slots, pos) ==
    IF pos >= Len(slots) THEN None
    ELSE LET v == as_ref(slots[pos + 1])
         IN  IF IsSome(v) THEN Some(Unwrap(v).value) ELSE None

\* HandleMapValuesMut::next
values_mut_next(slots, pos) ==
    IF pos >= Len(slots) THEN None
    ELSE LET v == as_mut(slots[pos + 1])
         IN  IF IsSome(v) THEN Some(Unwrap(v).value) ELSE None

\* values() consumed from position pos until next first returns None.
RECURSIVE values_collect(_, _)
values_collect(slots, pos) ==
    LET item == values_next(slots, pos)
    IN  IF IsSome(item) THEN <<Unwrap(item)>> \o values_collect(slots, pos + 1)
        ELSE <<>>

\* values_mut() consumed from position pos until next first returns None.
RECURSIVE values_mut_collect(_, _)
values_mut_collect(slots, pos) ==
    LET item == values_mut_next(slots, pos)
    IN  IF IsSome(item) THEN <<Unwrap(item)>> \o values_mut_collect(slots, pos + 1)
        ELSE <<>>

----------------------------------------------------------------------------
(* handle_map.rs: handles *)

\* handles() that numbers the occupied slots after filtering: filter_map before enumerate.
RECURSIVE handles_fromDense(_, _, _)
handles_fromDense(slots, mu, pos) ==
    IF pos >= Len(slots) THEN <<>>
    ELSE LET v == as_ref(slots[pos + 1])
             rest == handles_fromDense(slots, mu, pos + 1)
             before == Cardinality({i \in 1 .. pos : ~is_none(slots[i])})
         IN  (IF IsSome(v) THEN <<Handle(mu, Unwrap(v).unique, before)>> ELSE <<>>) \o rest

\* handles(): the handle of every occupied slot, in slot order.
RECURSIVE handles_from(_, _, _)
handles_from(slots, mu, pos) ==
    IF pos >= Len(slots) THEN <<>>
    ELSE LET v == as_ref(slots[pos + 1])
         IN  (IF IsSome(v) THEN <<Handle(mu, Unwrap(v).unique, pos)>> ELSE <<>>)
                 \o handles_from(slots, mu, pos + 1)

handles(map) == handles_from(map.values, map.unique, 0)

\* handles_mut(): as handles(), over iter_mut and as_mut.
RECURSIVE handles_mut_from(_, _, _)
handles_mut_from(slots, mu, pos) ==
    IF pos >= Len(slots) THEN <<>>
    ELSE LET v == as_mut(slots[pos + 1])
         IN  (IF IsSome(v) THEN <<Handle(mu, Unwrap(v).unique, pos)>> ELSE <<>>)
                 \o handles_mut_from(slots, mu, pos + 1)

handles_mut(map) == handles_mut_from(map.values, map.unique, 0)

----------------------------------------------------------------------------
(* The arena specification: one HandleMap and the calls made on it, and a     *)
(* second HandleMap holding up to MaxOther values, whose handles are foreign  *)
(* to the first.                                                              *)

Range(seq) == {seq[i] : i \in 1 .. Len(seq)}

UCall(op, node, parent, result, panic) ==
    [op |-> op, node |-> node, parent |-> parent, result |-> result, panic |-> panic]

Call(op, handle, value, result, flag, panic) ==
    [op |-> op, handle |-> handle, value |-> value,
     result |-> result, flag |-> flag, panic |-> panic]

\* No thread is in Unique::new and no Unique has been recorded.
ThreadsIdle ==
    /\ lock = {}
    /\ pc = [t \in Threads |-> "idle"]
    /\ local = [t \in Threads |-> None]
    /\ made = <<>>

\* HandleMap::new, given the token Unique::new handed out.
HandleMap__new(u) == [unique |-> u, values |-> <<>>]

\* A HandleMap after n calls of insert("a"), given the counter before each.
RECURSIVE Filled(_, _, _)
Filled(hm, id, n) ==
    IF n = 0 THEN hm
    ELSE Filled([hm EXCEPT !.values = insert(hm.values, hm.unique, UniqueNew(id), "a").slots],
                UniqueNew(id), n - 1)

\* Every handle an insert has returned on the arena, and the handles of the other arena.
Issued == {returned[i].handle : i \in 1 .. Len(returned)}
ForeignIssued == Range(handles(foreign))
Callable == Issued \cup ForeignIssued

\* HandleMap::new, twice; the second arena then gets up to MaxOther values, before
\* any call is made on the first.
Init ==
    \E k \in 0 .. MaxOther :
        LET u1 == UniqueNew(0)
            u2 == UniqueNew(u1)
        IN  /\ next_id = CounterAfter(u2, k)
            /\ arena = HandleMap__new(u1)
            /\ foreign = Filled(HandleMap__new(u2), u2, k)
            /\ returned = <<>>
            /\ last = Call("new", None, None, None, FALSE, FALSE)
            /\ nodes = HandleMap__new(0)
            /\ roots = <<>>
            /\ other = [nodes |-> HandleMap__new(0), roots |-> <<>>]
            /\ reparents = 0
            /\ call = UCall("none", None, None, None, FALSE)
            /\ ThreadsIdle

Insert(v) ==
    /\ ~last.panic
    /\ Len(returned) < MaxInserts
    /\ LET u == UniqueNew(next_id)
           r == insert(arena.values, arena.unique, u, v)
       IN  /\ next_id' = u
           /\ arena' = [arena EXCEPT !.values = r.slots]
           /\ returned' = Append(returned, [handle |-> r.handle, value |-> v])
           /\ last' = Call("insert", Some(r.handle), Some(v), None, FALSE, FALSE)
    /\ UNCHANGED <<foreign, uvars, tvars>>

Remove(h) ==
    /\ ~last.panic
    /\ LET r == remove(arena.values, h)
       IN  /\ arena' = [arena EXCEPT !.values = r.slots]
           /\ last' = Call("remove", Some(h), None, r.out, FALSE, FALSE)
    /\ UNCHANGED <<next_id, foreign, returned, uvars, tvars>>

Get(h) ==
    /\ ~last.panic
    /\ last' = IF IndexPanics(arena.values, h)
               THEN Call("get", Some(h), None, None, FALSE, TRUE)
               ELSE Call("get", Some(h), None, get(arena.values, h), FALSE, FALSE)
    /\ UNCHANGED <<next_id, arena, foreign, returned, uvars, tvars>>

GetMut(h) ==
    /\ ~last.panic
    /\ last' = IF IndexPanics(arena.values, h)
               THEN Call("get_mut", Some(h), None, None, FALSE, TRUE)
               ELSE Call("get_mut", Some(h), None, get_mut(arena.values, h), FALSE, FALSE)
    /\ UNCHANGED <<next_id, arena, foreign, returned, uvars, tvars>>

Contains(h) ==
    /\ ~last.panic
    /\ last' = IF IndexPanics(arena.values, h)
               THEN Call("contains", Some(h), None, None, FALSE, TRUE)
               ELSE Call("contains", Some(h), None, None, contains(arena.values, h), FALSE)
    /\ UNCHANGED <<next_id, arena, foreign, returned, uvars, tvars>>

Values ==
    /\ ~last.panic
    /\ last' = Call("values", None, None, values_collect(arena.values, 0), FALSE, FALSE)
    /\ UNCHANGED <<next_id, arena, foreign, returned, uvars, tvars>>

ValuesMut ==
    /\ ~last.panic
    /\ last' = Call("values_mut", None, None, values_mut_collect(arena.values, 0), FALSE, FALSE)
    /\ UNCHANGED <<next_id, arena, foreign, returned, uvars, tvars>>

Handles ==
    /\ ~last.panic
    /\ last' = Call("handles", None, None, handles(arena), FALSE, FALSE)
    /\ UNCHANGED <<next_id, arena, foreign, returned, uvars, tvars>>

HandlesMut ==
    /\ ~last.panic
    /\ last' = Call("handles_mut", None, None, handles_mut(arena), FALSE, FALSE)
    /\ UNCHANGED <<next_id, arena, foreign, returned, uvars, tvars>>

Length ==
    /\ ~last.panic
    /\ last' = Call("len", None, None, Some(len(arena.values)), FALSE, FALSE)
    /\ UNCHANGED <<next_id, arena, foreign, returned, uvars, tvars>>

IsEmpty ==
    /\ ~last.panic
    /\ last' = Call("is_empty", None, None, None, is_empty(arena.values), FALSE)
    /\ UNCHANGED <<next_id, arena, foreign, returned, uvars, tvars>>

Next ==
    \/ \E v \in Vals : Insert(v)
    \/ \E h \in Callable : Remove(h)
    \/ \E h \in Callable : Get(h)
    \/ \E h \in Callable : GetMut(h)
    \/ \E h \in Callable : Contains(h)
    \/ Values
    \/ ValuesMut
    \/ Handles
    \/ HandlesMut
    \/ Length
    \/ IsEmpty

Spec == Init /\ [][Next]_vars

----------------------------------------------------------------------------
(* class.rs: a class value is [name, fields]; name stands for the TypeId of   *)
(* the class type, and a field is [type, value] with type the TypeId of the   *)
(* component type.                                                            *)

Field(type, value) == [type |-> type, value |-> value]

\* The struct and the Class impl that define_class! expands one declaration to,
\* with the given field values. The expansion does not compare the field types.
define_class(name, fields) == [name |-> name, fields |-> fields]

\* The unit class ().
Unit == define_class("()", <<>>)

\* The classes and nodes of the test node_component_lookup.
Cat(name, age) == define_class("Cat", <<Field("Name", name), Field("Age", age)>>)
Dog(name, age) == define_class("Dog", <<Field("Name", name), Field("Age", age)>>)
Garfield == Cat("Garfield", "5")
Odie == Dog("Odie", "3")
Boomer == Dog("Boomer", "5")

\* A declaration with two fields of one component type, and a value of it.
Twins(first, second) == define_class("Twins", <<Field("Name", first), Field("Name", second)>>)
CastorPollux == Twins("Castor", "Pollux")

\* The classes the nodes of the universe specification are created with.
Classes == {Unit}

\* The class values, class types and component types of the query specification.
ClassValues == {Unit, Garfield, Odie, Boomer, CastorPollux}
ClassTypes == {"()", "Cat", "Dog", "Twins"}
ComponentTypes == {"Name", "Age"}

\* Class::component that gives the first field whatever its type.
Class__componentFirst(class, type_id) ==
    IF class.name = "()" THEN None
    ELSE IF Len(class.fields) = 0 THEN None ELSE Some(class.fields[1].value)

\* Class::component: the match arms are tried in field order and the first arm
\* whose TypeId is type_id gives its field; () has no component.
Class__component(class, type_id) ==
    IF class.name = "()" THEN None
    ELSE LET arms == {i \in 1 .. Len(class.fields) : class.fields[i].type = type_id}
         IN  IF arms = {} THEN None
             ELSE Some(class.fields[CHOOSE i \in arms : \A j \in arms : i <= j].value)

----------------------------------------------------------------------------
(* node.rs *)

Node__new(parent_handle, class) ==
    [handle |-> None, parent_handle |-> parent_handle,
     children_handles |-> <<>>, class |-> class]

\* __set_handle that leaves the handle unset.
Node__set_handleUnset(node, handle) == node

Node__set_handle(node, handle) == [node EXCEPT !.handle = Some(handle)]

Node__push_child_handle(node, handle) ==
    [node EXCEPT !.children_handles = Append(@, handle)]

\* __remove_child_handle with Vec::swap_remove: the last entry moves into the gap.
Node__remove_child_handleSwap(node, handle) ==
    LET c == node.children_handles
        hits == {i \in 1 .. Len(c) : c[i] = handle}
    IN  IF hits = {} THEN node
        ELSE LET index == CHOOSE i \in hits : \A j \in hits : i <= j
             IN  [node EXCEPT !.children_handles =
                     IF index = Len(c) THEN SubSeq(c, 1, Len(c) - 1)
                     ELSE SubSeq(c, 1, index - 1) \o <<c[Len(c)]>>
                              \o SubSeq(c, index + 1, Len(c) - 1)]

\* Vec::remove at the position of the first entry equal to handle, if there is one.
Node__remove_child_handle(node, handle) ==
    LET c == node.children_handles
        hits == {i \in 1 .. Len(c) : c[i] = handle}
    IN  IF hits = {} THEN node
        ELSE LET index == CHOOSE i \in hits : \A j \in hits : i <= j
             IN  [node EXCEPT !.children_handles =
                     SubSeq(c, 1, index - 1) \o SubSeq(c, index + 1, Len(c))]

Node__set_parent_handle(node, handle) == [node EXCEPT !.parent_handle = handle]

\* handle(): expect on the handle, which create_node sets before anyone sees the node.
Node__handle(node) == Unwrap(node.handle)

\* component::<T>(): Class::component of the class, then the downcast to T.
Node__component(node, type_id) == Class__component(node.class, type_id)

\* class_is that compares the component types the classes declare.
Node__class_isStructural(node, class_type) ==
    \E c \in ClassValues :
        /\ c.name = class_type
        /\ [i \in 1 .. Len(c.fields) |-> c.fields[i].type]
               = [i \in 1 .. Len(node.class.fields) |-> node.class.fields[i].type]

\* class_is::<T>(): whether the boxed class value is of type T.
Node__class_is(node, class_type) == node.class.name = class_type

----------------------------------------------------------------------------
(* universe.rs *)

\* HandleMap::new inside Universe::new, given the token Unique::new handed out.
Universe__new(u) == [nodes |-> HandleMap__new(u), roots |-> <<>>]

\* get(handle) or get_mut(handle) followed by unwrap or expect panics: on the
\* index out of range, or on a handle that does not resolve.
UnwrapPanics(map, handle) ==
    \/ IndexPanics(map.values, handle)
    \/ get_mut(map.values, handle) = None

\* The node that get_mut(handle).unwrap() refers to.
NodeAt(map, handle) == Unwrap(get_mut(map.values, handle))

\* The arena after the node behind handle was replaced through the mutable reference.
WithNode(map, handle, node) ==
    [map EXCEPT !.values[handle.index + 1].value = node]

Outcome(map, rs, out, panic) == [nodes |-> map, roots |-> rs, out |-> out, panic |-> panic]

\* create_node, given the fresh token u that insert's Unique::new handed out: the
\* arena and the roots after the call, the handle returned, and whether it panicked.
create_node(map, rs, u, parent_handle, class) ==
    LET ins == insert(map.values, map.unique, u, Node__new(parent_handle, class))
        node_handle == ins.handle
        m1 == [map EXCEPT !.values = ins.slots]
    IN  IF UnwrapPanics(m1, node_handle)
        THEN Outcome(m1, rs, None, TRUE)
        ELSE LET m2 == WithNode(m1, node_handle,
                           Node__set_handle(NodeAt(m1, node_handle), node_handle))
             IN  IF IsSome(parent_handle)
                 THEN IF UnwrapPanics(m2, Unwrap(parent_handle))
                      THEN Outcome(m2, rs, None, TRUE)
                      ELSE Outcome(WithNode(m2, Unwrap(parent_handle),
                                      Node__push_child_handle(
                                          NodeAt(m2, Unwrap(parent_handle)), node_handle)),
                                   rs, Some(node_handle), FALSE)
                 ELSE Outcome(m2, Append(rs, node_handle), Some(node_handle), FALSE)

\* The tail of change_parent that also pushes a node left without a parent onto the roots.
change_parent_attachRoots(map, rs, node_handle, new_parent_handle, old_parent_handle) ==
    IF IsSome(new_parent_handle) /\ UnwrapPanics(map, Unwrap(new_parent_handle))
    THEN Outcome(map, rs, None, TRUE)
    ELSE LET m2 == IF IsSome(new_parent_handle)
                   THEN WithNode(map, Unwrap(new_parent_handle),
                            Node__push_child_handle(
                                NodeAt(map, Unwrap(new_parent_handle)), node_handle))
                   ELSE map
             rs2 == IF IsSome(new_parent_handle) THEN rs ELSE Append(rs, node_handle)
         IN  IF UnwrapPanics(m2, node_handle)
             THEN Outcome(m2, rs2, None, TRUE)
             ELSE Outcome(WithNode(m2, node_handle,
                             Node__set_parent_handle(NodeAt(m2, node_handle), new_parent_handle)),
                          rs2, old_parent_handle, FALSE)

\* The tail of change_parent: attach to the new parent, then update the node itself.
change_parent_attach(map, rs, node_handle, new_parent_handle, old_parent_handle) ==
    IF IsSome(new_parent_handle) /\ UnwrapPanics(map, Unwrap(new_parent_handle))
    THEN Outcome(map, rs, None, TRUE)
    ELSE LET m2 == IF IsSome(new_parent_handle)
                   THEN WithNode(map, Unwrap(new_parent_handle),
                            Node__push_child_handle(
                                NodeAt(map, Unwrap(new_parent_handle)), node_handle))
                   ELSE map
         IN  IF UnwrapPanics(m2, node_handle)
             THEN Outcome(m2, rs, None, TRUE)
             ELSE Outcome(WithNode(m2, node_handle,
                             Node__set_parent_handle(NodeAt(m2, node_handle), new_parent_handle)),
                          rs, old_parent_handle, FALSE)

\* change_parent that attaches to the new parent without detaching from the old one.
change_parentNoDetach(map, rs, node_handle, new_parent_handle) ==
    IF UnwrapPanics(map, node_handle)
    THEN Outcome(map, rs, None, TRUE)
    ELSE change_parent_attach(map, rs, node_handle, new_parent_handle,
                              NodeAt(map, node_handle).parent_handle)

\* change_parent that returns the new parent instead of the old one.
change_parentReturnsNew(map, rs, node_handle, new_parent_handle) ==
    IF UnwrapPanics(map, node_handle)
    THEN Outcome(map, rs, None, TRUE)
    ELSE LET old_parent_handle == NodeAt(map, node_handle).parent_handle
             m1 == IF IsSome(old_parent_handle) /\ ~UnwrapPanics(map, Unwrap(old_parent_handle))
                   THEN WithNode(map, Unwrap(old_parent_handle),
                            Node__remove_child_handle(
                                NodeAt(map, Unwrap(old_parent_handle)), node_handle))
                   ELSE map
         IN  change_parent_attach(m1, rs, node_handle, new_parent_handle, new_parent_handle)

\* change_parent: the arena and the roots after the call, the handle returned, and
\* whether it panicked.  The roots are never touched.
change_parent(map, rs, node_handle, new_parent_handle) ==
    IF UnwrapPanics(map, node_handle)
    THEN Outcome(map, rs, None, TRUE)
    ELSE LET old_parent_handle == NodeAt(map, node_handle).parent_handle
         IN  IF IsSome(old_parent_handle) /\ UnwrapPanics(map, Unwrap(old_parent_handle))
             THEN Outcome(map, rs, None, TRUE)
             ELSE LET m1 == IF IsSome(old_parent_handle)
                            THEN WithNode(map, Unwrap(old_parent_handle),
                                     Node__remove_child_handle(
                                         NodeAt(map, Unwrap(old_parent_handle)), node_handle))
                            ELSE map
                  IN  change_parent_attach(m1, rs, node_handle, new_parent_handle,
                                           old_parent_handle)

\* node(handle), for an index in range.
node(map, handle) == get(map.values, handle)

\* root_node_handles()
root_node_handles(rs) == rs

\* The closure handed to using_nodes_with_handles_mut: the number of children of
\* the node, or -1 for no node.
f(opt_node) == IF IsSome(opt_node) THEN Len(Unwrap(opt_node).children_handles) ELSE -1

\* nodes_with_handles(handles), consumed to the end: get for every handle in order.
\* get panics for an index out of range, and the items before it have been yielded.
RECURSIVE nodes_with_handles(_, _)
nodes_with_handles(map, hs) ==
    IF hs = <<>> THEN [out |-> <<>>, panic |-> FALSE]
    ELSE IF IndexPanics(map.values, Head(hs)) THEN [out |-> <<>>, panic |-> TRUE]
    ELSE LET rest == nodes_with_handles(map, Tail(hs))
         IN  [out |-> <<get(map.values, Head(hs))>> \o rest.out, panic |-> rest.panic]

\* using_nodes_with_handles_mut(handles, f): f(get_mut(handle)) pushed for every
\* handle in order.
RECURSIVE using_nodes_with_handles_mut(_, _)
using_nodes_with_handles_mut(map, hs) ==
    IF hs = <<>> THEN [out |-> <<>>, panic |-> FALSE]
    ELSE IF IndexPanics(map.values, Head(hs)) THEN [out |-> <<>>, panic |-> TRUE]
    ELSE LET rest == using_nodes_with_handles_mut(map, Tail(hs))
         IN  [out |-> <<f(get_mut(map.values, Head(hs)))>> \o rest.out, panic |-> rest.panic]

\* NodesWithClass::next over nodes() at position pos: the item and the position after.
RECURSIVE NodesWithClass__next(_, _, _)
NodesWithClass__next(slots, pos, class_type) ==
    LET item == values_next(slots, pos)
    IN  IF ~IsSome(item) THEN [item |-> None, pos |-> pos]
        ELSE IF Node__class_is(Unwrap(item), class_type) THEN [item |-> item, pos |-> pos + 1]
        ELSE NodesWithClass__next(slots, pos + 1, class_type)

\* NodesWithComponent::next that ends at the first node without the component.
NodesWithComponent__nextStop(slots, pos, type_id) ==
    LET item == values_next(slots, pos)
    IN  IF ~IsSome(item) THEN [item |-> None, pos |-> pos]
        ELSE LET component == Node__component(Unwrap(item), type_id)
             IN  IF IsSome(component)
                 THEN [item |-> Some([node |-> Unwrap(item), component |-> Unwrap(component)]),
                       pos |-> pos + 1]
                 ELSE [item |-> None, pos |-> pos + 1]

\* NodesWithComponent::next over nodes() at position pos: the (node, component)
\* pair and the position after.
RECURSIVE NodesWithComponent__next(_, _, _)
NodesWithComponent__next(slots, pos, type_id) ==
    LET item == values_next(slots, pos)
    IN  IF ~IsSome(item) THEN [item |-> None, pos |-> pos]
        ELSE LET component == Node__component(Unwrap(item), type_id)
             IN  IF IsSome(component)
                 THEN [item |-> Some([node |-> Unwrap(item), component |-> Unwrap(component)]),
                       pos |-> pos + 1]
                 ELSE NodesWithComponent__next(slots, pos + 1, type_id)

\* nodes().handles() collected: NodesToHandles::next maps the node to its handle.
RECURSIVE nodes_handles(_, _)
nodes_handles(slots, pos) ==
    LET item == values_next(slots, pos)
    IN  IF IsSome(item) THEN <<Node__handle(Unwrap(item))>> \o nodes_handles(slots, pos + 1)
        ELSE <<>>

\* nodes().with_class::<C>().handles() collected.
RECURSIVE with_class_handles(_, _, _)
with_class_handles(slots, pos, class_type) ==
    LET r == NodesWithClass__next(slots, pos, class_type)
    IN  IF IsSome(r.item)
        THEN <<Node__handle(Unwrap(r.item))>> \o with_class_handles(slots, r.pos, class_type)
        ELSE <<>>

\* nodes().with_component::<C>() collected, each node given by its handle.
RECURSIVE with_component_pairs(_, _, _)
with_component_pairs(slots, pos, type_id) ==
    LET r == NodesWithComponent__next(slots, pos, type_id)
    IN  IF IsSome(r.item)
        THEN <<[handle |-> Node__handle(Unwrap(r.item).node),
                component |-> Unwrap(r.item).component]>>
                 \o with_component_pairs(slots, r.pos, type_id)
        ELSE <<>>

----------------------------------------------------------------------------
(* The universe specification: one Universe and the calls made on it, and a   *)
(* second Universe holding only parentless nodes, whose handles are foreign   *)
(* to the first.                                                              *)

\* The handles a caller can hold: those of both universes' nodes.
OwnHandles == Range(handles(nodes))
ForeignHandles == Range(handles(other.nodes))
KnownHandles == OwnHandles \cup ForeignHandles
OptHandles == {None} \cup {Some(h) : h \in KnownHandles}

\* A universe after n calls of create_node(None, ()), given the counter before each.
RECURSIVE Populated(_, _, _)
Populated(universe, id, n) ==
    IF n = 0 THEN universe
    ELSE LET r == create_node(universe.nodes, universe.roots, UniqueNew(id), None, Unit)
         IN  Populated([nodes |-> r.nodes, roots |-> r.roots], UniqueNew(id), n - 1)

\* Universe::new, twice; the second universe then gets up to MaxOther parentless
\* nodes, before any call is made on the first.
UniverseInit ==
    \E k \in 0 .. MaxOther :
        LET u1 == UniqueNew(0)
            u2 == UniqueNew(u1)
        IN  /\ next_id = CounterAfter(u2, k)
            /\ nodes = Universe__new(u1).nodes
            /\ roots = Universe__new(u1).roots
            /\ other = Populated(Universe__new(u2), u2, k)
            /\ reparents = 0
            /\ call = UCall("new", None, None, None, FALSE)
            /\ arena = HandleMap__new(0)
            /\ foreign = HandleMap__new(0)
            /\ returned = <<>>
            /\ last = Call("none", None, None, None, FALSE, FALSE)
            /\ ThreadsIdle

CreateNode(parent_handle, class) ==
    /\ ~call.panic
    /\ Len(nodes.values) < MaxNodes
    /\ LET u == UniqueNew(next_id)
           r == create_node(nodes, roots, u, parent_handle, class)
       IN  /\ next_id' = u
           /\ nodes' = r.nodes
           /\ roots' = r.roots
           /\ call' = UCall("create_node", None, parent_handle, r.out, r.panic)
    /\ UNCHANGED <<other, reparents, avars, tvars>>

ChangeParent(node_handle, new_parent_handle) ==
    /\ ~call.panic
    /\ reparents < MaxReparents
    /\ reparents' = reparents + 1
    /\ LET r == change_parent(nodes, roots, node_handle, new_parent_handle)
       IN  /\ nodes' = r.nodes
           /\ roots' = r.roots
           /\ call' = UCall("change_parent", Some(node_handle), new_parent_handle,
                            r.out, r.panic)
    /\ UNCHANGED <<next_id, other, avars, tvars>>

UniverseNext ==
    \/ \E p \in OptHandles, c \in Classes : CreateNode(p, c)
    \/ \E n \in KnownHandles, p \in OptHandles : ChangeParent(n, p)

UniverseSpec == UniverseInit /\ [][UniverseNext]_vars

----------------------------------------------------------------------------
(* The query specification: one Universe whose nodes are created with the     *)
(* classes of the test node_component_lookup, the unit class and a class with *)
(* two fields of one type, and the queries made on it.                        *)

\* A query and what it returned.
QCall(op, arg, result, panic) == [op |-> op, arg |-> arg, result |-> result, panic |-> panic]

QueryInit ==
    LET u1 == UniqueNew(0)
    IN  /\ next_id = u1
        /\ nodes = Universe__new(u1).nodes
        /\ roots = Universe__new(u1).roots
        /\ other = [nodes |-> HandleMap__new(0), roots |-> <<>>]
        /\ reparents = 0
        /\ call = QCall("new", None, None, FALSE)
        /\ arena = HandleMap__new(0)
        /\ foreign = HandleMap__new(0)
        /\ returned = <<>>
        /\ last = Call("none", None, None, None, FALSE, FALSE)
        /\ ThreadsIdle

\* create_node(parent_handle, class)
QueryCreateNode(parent_handle, class) ==
    /\ ~call.panic
    /\ Len(nodes.values) < MaxQueryNodes
    /\ LET u == UniqueNew(next_id)
           r == create_node(nodes, roots, u, parent_handle, class)
       IN  /\ next_id' = u
           /\ nodes' = r.nodes
           /\ roots' = r.roots
           /\ call' = QCall("create_node", <<parent_handle, class>>, r.out, r.panic)
    /\ UNCHANGED <<other, reparents, avars, tvars>>

\* nodes().with_class::<C>().handles().collect()
WithClass(class_type) ==
    /\ ~call.panic
    /\ call' = QCall("with_class", class_type,
                     with_class_handles(nodes.values, 0, class_type), FALSE)
    /\ UNCHANGED <<next_id, nodes, roots, other, reparents, avars, tvars>>

\* nodes().with_component::<C>().collect()
WithComponent(type_id) ==
    /\ ~call.panic
    /\ call' = QCall("with_component", type_id,
                     with_component_pairs(nodes.values, 0, type_id), FALSE)
    /\ UNCHANGED <<next_id, nodes, roots, other, reparents, avars, tvars>>

\* node(handle).unwrap().component::<C>(), for a handle of the universe
Component(handle, type_id) ==
    /\ ~call.panic
    /\ call' = QCall("component", <<handle, type_id>>,
                     Node__component(Unwrap(node(nodes, handle)), type_id), FALSE)
    /\ UNCHANGED <<next_id, nodes, roots, other, reparents, avars, tvars>>

QueryNext ==
    \/ \E p \in {None} \cup {Some(h) : h \in OwnHandles}, c \in ClassValues : QueryCreateNode(p, c)
    \/ \E c \in ClassTypes : WithClass(c)
    \/ \E t \in ComponentTypes : WithComponent(t)
    \/ \E h \in OwnHandles, t \in ComponentTypes : Component(h, t)

QuerySpec == QueryInit /\ [][QueryNext]_vars

----------------------------------------------------------------------------
(* The batch specification: one Universe of unit-class nodes, a second one    *)
(* whose handles are foreign to it, and the lookups of several handles at     *)
(* once.                                                                      *)

\* The slices of handles looked up: of zero, one and two handles.
HandleSlices ==
    {<<>>} \cup {<<a>> : a \in KnownHandles} \cup {<<a, b>> : a, b \in KnownHandles}

BatchCreateNode(parent_handle, class) ==
    /\ ~call.panic
    /\ Len(nodes.values) < MaxQueryNodes
    /\ LET u == UniqueNew(next_id)
           r == create_node(nodes, roots, u, parent_handle, class)
       IN  /\ next_id' = u
           /\ nodes' = r.nodes
           /\ roots' = r.roots
           /\ call' = QCall("create_node", <<parent_handle, class>>, r.out, r.panic)
    /\ UNCHANGED <<other, reparents, avars, tvars>>

\* nodes_with_handles(handles).collect()
NodesWithHandles(hs) ==
    /\ ~call.panic
    /\ LET r == nodes_with_handles(nodes, hs)
       IN  call' = QCall("nodes_with_handles", hs, r.out, r.panic)
    /\ UNCHANGED <<next_id, nodes, roots, other, reparents, avars, tvars>>

\* using_nodes_with_handles_mut(handles, f)
UsingNodesWithHandlesMut(hs) ==
    /\ ~call.panic
    /\ LET r == using_nodes_with_handles_mut(nodes, hs)
       IN  call' = QCall("using_nodes_with_handles_mut", hs, r.out, r.panic)
    /\ UNCHANGED <<next_id, nodes, roots, other, reparents, avars, tvars>>

BatchNext ==
    \/ \E p \in OptHandles, c \in Classes : BatchCreateNode(p, c)
    \/ \E hs \in HandleSlices : NodesWithHandles(hs)
    \/ \E hs \in HandleSlices : UsingNodesWithHandlesMut(hs)

BatchSpec == UniverseInit /\ [][BatchNext]_vars

----------------------------------------------------------------------------
(* The counter specification: threads calling Unique::new concurrently, each  *)
(* call a sequence of steps under the write lock of NEXT_ID, and clones of    *)
(* the Uniques made. An entry of made is [unique, source]: the id, and the    *)
(* position in made of the Unique::new call it comes from.                    *)

UniqueInit ==
    /\ next_id = 0
    /\ ThreadsIdle
    /\ arena = HandleMap__new(0)
    /\ foreign = HandleMap__new(0)
    /\ returned = <<>>
    /\ last = Call("none", None, None, None, FALSE, FALSE)
    /\ nodes = HandleMap__new(0)
    /\ roots = <<>>
    /\ other = [nodes |-> HandleMap__new(0), roots |-> <<>>]
    /\ reparents = 0
    /\ call = UCall("none", None, None, None, FALSE)

\* The calls of Unique::new that have started and not returned.
InFlight == {t \in Threads : pc[t] # "idle"}

\* A thread calls Unique::new and reaches NEXT_ID.write().
Enter(t) ==
    /\ pc[t] = "idle"
    /\ Len(made) + Cardinality(InFlight) < MaxUniques
    /\ pc' = [pc EXCEPT ![t] = "waiting"]
    /\ UNCHANGED <<next_id, lock, local, made, avars, uvars>>

\* let mut next_id = NEXT_ID.write().unwrap();
Acquire(t) ==
    /\ pc[t] = "waiting"
    /\ RwLock__write(lock)
    /\ lock' = lock \cup {t}
    /\ pc' = [pc EXCEPT ![t] = "locked"]
    /\ UNCHANGED <<next_id, local, made, avars, uvars>>

\* let id = *next_id + 1;
ReadIncrement(t) ==
    /\ pc[t] = "locked"
    /\ local' = [local EXCEPT ![t] = Some(UniqueNew(next_id))]
    /\ pc' = [pc EXCEPT ![t] = "read"]
    /\ UNCHANGED <<next_id, lock, made, avars, uvars>>

\* *next_id = id;
Store(t) ==
    /\ pc[t] = "read"
    /\ next_id' = Unwrap(local[t])
    /\ pc' = [pc EXCEPT ![t] = "stored"]
    /\ UNCHANGED <<lock, local, made, avars, uvars>>

\* Unique { id: Arc::new(id) }; the write guard is dropped as the function returns.
Return(t) ==
    /\ pc[t] = "stored"
    /\ made' = Append(made, [unique |-> Unwrap(local[t]), source |-> Len(made) + 1])
    /\ lock' = lock \ {t}
    /\ local' = [local EXCEPT ![t] = None]
    /\ pc' = [pc EXCEPT ![t] = "idle"]
    /\ UNCHANGED <<next_id, avars, uvars>>

\* A Unique made earlier is cloned.
Clone(i) ==
    /\ Len(made) + Cardinality(InFlight) < MaxUniques
    /\ made' = Append(made, [unique |-> Unique__clone(made[i].unique),
                             source |-> made[i].source])
    /\ UNCHANGED <<next_id, lock, pc, local, avars, uvars>>

UniqueNext ==
    \/ \E t \in Threads : Enter(t)
    \/ \E t \in Threads : Acquire(t)
    \/ \E t \in Threads : ReadIncrement(t)
    \/ \E t \in Threads : Store(t)
    \/ \E t \in Threads : Return(t)
    \/ \E i \in 1 .. Len(made) : Clone(i)

UniqueSpec == UniqueInit /\ [][UniqueNext]_vars

\* C14: under any interleaving of Unique::new calls by several threads every call
\* obtains a different id, so two Uniques are equal exactly when they come from the
\* same call of Unique::new: independently created Uniques are never equal, and a
\* Unique and its clone are always equal.
C14_UniqueIdsDistinct ==
    \A i, j \in 1 .. Len(made) :
        Unique__eq(made[i].unique, made[j].unique) <=> made[i].source = made[j].source

\* Two Uniques from two calls of Unique::new and a clone of one of them, made while
\* a second thread was inside Unique::new.
C14_Witness ==
    /\ \E i, j \in 1 .. Len(made) : made[i].source # made[j].source
    /\ \E i, j \in 1 .. Len(made) : i # j /\ made[i].source = made[j].source
    /\ InFlight # {}

----------------------------------------------------------------------------
(* Properties of the arena. *)

\* The handle resolves: index in range, slot occupied, slot token equal to the handle's.
HandleValid(slots, h) ==
    /\ h.index < Len(slots)
    /\ slots[h.index + 1].occ
    /\ slots[h.index + 1].unique = h.unique

\* get, get_mut and contains all report absent, without failing.
Absent(slots, h) ==
    /\ ~IndexPanics(slots, h)
    /\ get(slots, h) = None
    /\ get_mut(slots, h) = None
    /\ ~contains(slots, h)

\* The values of the occupied slots, in slot-index order.
OccupiedValues(slots) ==
    LET occ == SelectSeq(slots, LAMBDA s : s.occ)
    IN  [i \in 1 .. Len(occ) |-> occ[i].value]

\* Two handles that insert returned for the same slot index.
SlotReused ==
    \E i, j \in 1 .. Len(returned) :
        i < j /\ returned[i].handle.index = returned[j].handle.index

\* C2: remove(h) empties the slot and returns its value only when h.index is in
\* range, the slot is occupied and the slot's token equals h's; for every other
\* handle it returns None and leaves every slot of the arena unchanged.
C2_RemoveValidatesHandle ==
    [][last'.op = "remove" =>
        LET h == Unwrap(last'.handle)
        IN  IF HandleValid(arena.values, h)
            THEN /\ last'.result = Some(arena.values[h.index + 1].value)
                 /\ arena'.values = [arena.values EXCEPT ![h.index + 1] = EmptySlot]
            ELSE /\ last'.result = None
                 /\ arena'.values = arena.values]_vars

\* C3: once remove(h) was called with a handle h of the arena, get(h), get_mut(h)
\* and contains(h) report absent in every later state, whatever inserts and
\* removes follow, and no later insert returns a handle equal to h.
C3_StaleHandleRejected ==
    [][\A h \in Issued :
        /\ (last'.op = "remove" /\ last'.handle = Some(h)) => Absent(arena'.values, h)
        /\ Absent(arena.values, h) => Absent(arena'.values, h)
        /\ (Absent(arena.values, h) /\ last'.op = "insert") => last'.handle # Some(h)]_vars

\* C3 witness: a removed handle is absent while a later insert reused its slot index.
C3_Witness ==
    \E i, j \in 1 .. Len(returned) :
        /\ i < j
        /\ returned[i].handle.index = returned[j].handle.index
        /\ Absent(arena.values, returned[i].handle)
        /\ HandleValid(arena.values, returned[j].handle)

\* C4: no two handles returned by insert on a HandleMap are equal, also when
\* they share a slot index because a removed slot was reused.
C4_HandlesUnique ==
    \A i, j \in 1 .. Len(returned) :
        i # j => returned[i].handle # returned[j].handle

\* C4 witness: insert has returned three handles, two of them for the same slot index.
C4_Witness == SlotReused /\ Len(returned) >= 3

\* C5: a handle returned by insert(v) stays valid until remove is called with
\* that very handle: every other call leaves contains(h) true and get(h) = v.
C5_ValidUntilOwnRemove ==
    [][\A i \in 1 .. Len(returned) :
        LET h == returned[i].handle
        IN  (/\ HandleValid(arena.values, h)
             /\ ~(last'.op = "remove" /\ last'.handle = Some(h)))
            => /\ ~IndexPanics(arena'.values, h)
               /\ contains(arena'.values, h)
               /\ get(arena'.values, h) = Some(returned[i].value)]_vars

\* C8: values() and values_mut(), consumed until they first return None, yield
\* every occupied value exactly once in slot-index order, skipping empty slots.
C8_ValuesYieldAllOccupied ==
    last.op \in {"values", "values_mut"} => last.result = OccupiedValues(arena.values)

\* C9: get, get_mut and contains called with a handle issued by a different
\* HandleMap report absent and never fail, whatever the handle's index is.
C9_ForeignHandleAbsent ==
    (/\ last.op \in {"get", "get_mut", "contains"}
     /\ Unwrap(last.handle).map_unique # arena.unique)
        => /\ ~last.panic
           /\ last.result = None
           /\ ~last.flag

\* C10: right after insert(v) returned h, get(h) yields v and contains(h) is true.
C10_InsertGetRoundTrip ==
    last.op = "insert" =>
        LET h == Unwrap(last.handle)
        IN  /\ ~IndexPanics(arena.values, h)
            /\ get(arena.values, h) = last.value
            /\ contains(arena.values, h)

\* C10 witness: the last call is an insert that reused a slot emptied by remove,
\* into an arena that also holds an appended slot.
C10_Witness ==
    /\ last.op = "insert"
    /\ Unwrap(last.handle).index < Len(arena.values) - 1
    /\ \E i \in 1 .. Len(returned) - 1 :
        returned[i].handle.index = Unwrap(last.handle).index

\* The positions of the empty slots, counted from 0 as the code counts them.
EmptyIndices(slots) == {i \in 0 .. Len(slots) - 1 : ~slots[i + 1].occ}

\* The positions of the occupied slots.
OccupiedIndices(slots) == {i \in 0 .. Len(slots) - 1 : slots[i + 1].occ}

\* C11: insert stores the value in the lowest-index Empty slot when there is one and
\* leaves the number of slots unchanged; only when no slot is Empty does it append
\* one new slot at index len(), growing the number of slots by exactly one. In both
\* cases every other slot is unchanged.
C11_InsertFillsLowestEmpty ==
    [][returned' # returned =>
        LET old == arena.values
            new == arena'.values
            i == returned'[Len(returned')].handle.index
            v == returned'[Len(returned')].value
        IN  /\ IF EmptyIndices(old) # {}
               THEN /\ i \in EmptyIndices(old)
                    /\ \A j \in EmptyIndices(old) : i <= j
                    /\ Len(new) = Len(old)
               ELSE /\ i = Len(old)
                    /\ Len(new) = Len(old) + 1
            /\ new[i + 1].occ
            /\ new[i + 1].value = v
            /\ \A j \in 0 .. Len(old) - 1 : j # i => new[j + 1] = old[j + 1]]_vars

\* An insert that went into the lower of two Empty slots.
C11_Witness ==
    /\ last.op = "insert"
    /\ \E j \in EmptyIndices(arena.values) : Unwrap(last.handle).index < j

\* The handle insert returned the last time it stored a value at position i.
LatestIssued(i) ==
    LET ks == {k \in 1 .. Len(returned) : returned[k].handle.index = i}
    IN  returned[CHOOSE k \in ks : \A m \in ks : m <= k].handle

\* C12: handles() and handles_mut() yield, in slot-index order, exactly one handle per
\* Occupied slot and none for an Empty slot; each yielded handle is the handle insert
\* returned for the value now in that slot, so contains() of it is true.
C12_HandlesYieldOccupied ==
    last.op \in {"handles", "handles_mut"} =>
        LET hs == last.result
            occ == OccupiedIndices(arena.values)
        IN  /\ Len(hs) = Cardinality(occ)
            /\ {hs[k].index : k \in 1 .. Len(hs)} = occ
            /\ \A k \in 1 .. Len(hs) - 1 : hs[k].index < hs[k + 1].index
            /\ \A k \in 1 .. Len(hs) :
                /\ hs[k] = LatestIssued(hs[k].index)
                /\ ~IndexPanics(arena.values, hs[k])
                /\ contains(arena.values, hs[k])

\* handles() on an arena with an Empty slot below an Occupied one.
C12_Witness ==
    /\ last.op = "handles"
    /\ \E i \in EmptyIndices(arena.values), j \in OccupiedIndices(arena.values) : i < j

----------------------------------------------------------------------------
(* Properties of the universe. *)

\* parent() and children() of the node of the universe behind an own handle.
Parent(map, h) == NodeAt(map, h).parent_handle
Children(map, h) == NodeAt(map, h).children_handles

\* No entry occurs twice in the sequence.
NoDuplicates(seq) == \A i, j \in 1 .. Len(seq) : i # j => seq[i] # seq[j]

\* The tree of the test node_lookup before its change_parent call: A is the
\* only root, B the child of A, C and D the children of B, in this order.
TestTree(map, rs, A, B, C, D) ==
    /\ Cardinality({A, B, C, D}) = 4
    /\ rs = <<A>>
    /\ Parent(map, A) = None     /\ Children(map, A) = <<B>>
    /\ Parent(map, B) = Some(A)  /\ Children(map, B) = <<C, D>>
    /\ Parent(map, C) = Some(B)  /\ Children(map, C) = <<>>
    /\ Parent(map, D) = Some(B)  /\ Children(map, D) = <<>>

\* C1: after any calls of create_node and change_parent that returned, every
\* node either has no parent and is in root_node_handles(), or has a parent p
\* and is in node(p).children(); a handle is in root_node_handles() exactly when
\* its node has no parent.
C1_TreeInvariant ==
    ~call.panic =>
        \A h \in OwnHandles :
            LET p == Parent(nodes, h)
                isRoot == p = None /\ h \in Range(root_node_handles(roots))
                isChild == /\ IsSome(p)
                           /\ Unwrap(p) \in OwnHandles
                           /\ h \in Range(Children(nodes, Unwrap(p)))
            IN  /\ isRoot \/ isChild
                /\ ~(isRoot /\ isChild)
                /\ h \in Range(root_node_handles(roots)) <=> p = None

\* C6: change_parent(n, Some(p)) that returns gives back n's parent before the
\* call (None when it had none) and leaves parent(n) = Some(p), n the last entry
\* of children(p), and n absent from the children of an old parent other than p.
\* On the test's tree, change_parent(B, Some(C)) leaves children(C) = [B],
\* parent(B) = Some(C) and children(A) = [].
C6_ReparentCorrect ==
    [][(reparents' = reparents + 1 /\ ~call'.panic /\ IsSome(call'.parent)) =>
        LET n == Unwrap(call'.node)
            p == Unwrap(call'.parent)
            q == Parent(nodes, n)
        IN  /\ call'.result = q
            /\ Parent(nodes', n) = Some(p)
            /\ Len(Children(nodes', p)) > 0
            /\ Children(nodes', p)[Len(Children(nodes', p))] = n
            /\ (IsSome(q) /\ Unwrap(q) # p) => n \notin Range(Children(nodes', Unwrap(q)))
            /\ \A A, C, D \in OwnHandles :
                (TestTree(nodes, roots, A, n, C, D) /\ p = C) =>
                    /\ Children(nodes', C) = <<n>>
                    /\ Parent(nodes', n) = Some(C)
                    /\ Children(nodes', A) = <<>>
                    /\ call'.result = Some(A)]_vars

\* C6 witness: the state of the test after change_parent(B, Some(C)) returned Some(A).
C6_Witness ==
    \E A, B, C, D \in OwnHandles :
        /\ Cardinality({A, B, C, D}) = 4
        /\ call = UCall("change_parent", Some(B), Some(C), Some(A), FALSE)
        /\ roots = <<A>>
        /\ Children(nodes, A) = <<>>
        /\ Children(nodes, B) = <<C, D>>
        /\ Children(nodes, C) = <<B>>
        /\ Parent(nodes, B) = Some(C)
        /\ Parent(nodes, D) = Some(B)

\* C7: after calls of create_node and change_parent that returned, n is in
\* children(p) exactly when parent(n) = Some(p), and no children list holds a
\* handle twice.
C7_ChildrenMatchParent ==
    ~call.panic =>
        \A p \in OwnHandles :
            /\ NoDuplicates(Children(nodes, p))
            /\ Range(Children(nodes, p)) \subseteq OwnHandles
            /\ \A n \in OwnHandles :
                n \in Range(Children(nodes, p)) <=> Parent(nodes, n) = Some(p)

\* C7 witness: change_parent moved a node under the parent it already had, next
\* to a sibling.
C7_Witness ==
    /\ call.op = "change_parent"
    /\ ~call.panic
    /\ IsSome(call.parent)
    /\ call.result = call.parent
    /\ Len(Children(nodes, Unwrap(call.parent))) >= 2

\* The sequence new is the sequence old with one entry equal to h taken out and the
\* other entries in their old order.
OneRemoved(old, new, h) ==
    \E k \in 1 .. Len(old) :
        /\ old[k] = h
        /\ new = SubSeq(old, 1, k - 1) \o SubSeq(old, k + 1, Len(old))

\* C13: children() is in insertion order. create_node(Some(p)) and
\* change_parent(n, Some(p)) that return put the child at the end of p's list;
\* change_parent takes only n's entry out of the old parent's list and keeps the
\* order of the remaining children; no other node's list changes.
C13_ChildrenInsertionOrder ==
    [][/\ (call'.op = "create_node" /\ ~call'.panic /\ Len(nodes'.values) > Len(nodes.values)) =>
            LET new == Unwrap(call'.result)
            IN  /\ Children(nodes', new) = <<>>
                /\ \A h \in OwnHandles :
                    Children(nodes', h) =
                        IF call'.parent = Some(h) THEN Append(Children(nodes, h), new)
                        ELSE Children(nodes, h)
       /\ (reparents' = reparents + 1 /\ ~call'.panic) =>
            LET n == Unwrap(call'.node)
                q == Parent(nodes, n)
            IN  \A h \in OwnHandles :
                    LET old == Children(nodes, h)
                        new == Children(nodes', h)
                    IN  IF call'.parent = Some(h)
                        THEN /\ Len(new) > 0
                             /\ new[Len(new)] = n
                             /\ IF q = Some(h)
                                THEN OneRemoved(old, SubSeq(new, 1, Len(new) - 1), n)
                                ELSE SubSeq(new, 1, Len(new) - 1) = old
                        ELSE IF q = Some(h) THEN OneRemoved(old, new, n)
                        ELSE new = old]_vars

\* A change_parent that took the first of three children away from its parent.
C13_Witness ==
    /\ call.op = "change_parent"
    /\ ~call.panic
    /\ IsSome(call.result)
    /\ call.parent # call.result
    /\ LET c == Children(nodes, Unwrap(call.result))
       IN  /\ Len(c) = 2
           /\ Unwrap(call.node).index < c[1].index
           /\ c[1].index < c[2].index

C22_ChangeParentAllOrNothing ==
    [][(/\ reparents' = reparents + 1
        /\ call'.panic
        /\ Unwrap(call'.node) \in OwnHandles
        /\ IsSome(call'.parent)
        /\ Unwrap(call'.parent) \notin OwnHandles) =>
            LET n == Unwrap(call'.node)
                q == Parent(nodes, n)
            IN  /\ nodes' = nodes
                /\ roots' = roots
                /\ Parent(nodes', n) = q
                /\ IsSome(q) => n \in Range(Children(nodes', Unwrap(q)))]_vars

\* C23: create_node(Some(p), class) with a handle p that does not resolve fails, and
\* the arena, the roots and every children list are as before the call: no node is
\* left that is neither a root nor a child of some node.
C23_FailedCreateLeavesNoNode ==
    [][(/\ call'.op = "create_node"
        /\ next_id' # next_id
        /\ IsSome(call'.parent)
        /\ Unwrap(call'.parent) \notin OwnHandles) =>
            /\ call'.panic
            /\ nodes' = nodes
            /\ roots' = roots]_vars

\* The node reached from h by following parent() k times, if there is one.
RECURSIVE AncestorAt(_, _, _)
AncestorAt(map, h, k) ==
    IF k = 0 THEN Some(h)
    ELSE LET below == AncestorAt(map, h, k - 1)
         IN  IF IsSome(below) /\ HandleValid(map.values, Unwrap(below))
             THEN Parent(map, Unwrap(below))
             ELSE None

\* C24: after any create_node and change_parent calls that returned, the parent
\* links form a forest: no node is its own parent or its own ancestor, so following
\* parent() from any node ends at a node without a parent.
C24_ParentLinksForest ==
    ~call.panic =>
        \A h \in OwnHandles :
            /\ \A k \in 1 .. Len(nodes.values) : AncestorAt(nodes, h, k) # Some(h)
            /\ AncestorAt(nodes, h, Len(nodes.values)) = None

\* C25: for every handle h of a node of the universe, node(h).handle() is h in every
\* state: it is set before create_node returns and no change_parent or later
\* create_node changes it; and nodes() never yields a node whose handle is unset.
C25_NodeKnowsOwnHandle ==
    /\ \A h \in OwnHandles :
        /\ ~IndexPanics(nodes.values, h)
        /\ IsSome(node(nodes, h))
        /\ Unwrap(node(nodes, h)).handle = Some(h)
    /\ LET yielded == values_collect(nodes.values, 0)
       IN  \A k \in 1 .. Len(yielded) : IsSome(yielded[k].handle)
    /\ (IsSome(call.result) /\ ~call.panic) => Unwrap(call.result) \in OwnHandles

\* A node created without a parent and made a child by change_parent, and a
\* create_node that returned after that.
C25_Witness ==
    /\ call.op = "create_node"
    /\ ~call.panic
    /\ reparents > 0
    /\ \E h \in OwnHandles :
        /\ IsSome(Parent(nodes, h))
        /\ h \in Range(root_node_handles(roots))
        /\ h.unique < Unwrap(call.result).unique

----------------------------------------------------------------------------
(* Properties of the queries. *)

\* The component types the class of the node with handle h declares.
DeclaredTypes(map, h) ==
    {NodeAt(map, h).class.fields[i].type : i \in 1 .. Len(NodeAt(map, h).class.fields)}

\* The values of the fields of type t of the node with handle h.
OwnValues(map, h, t) ==
    {NodeAt(map, h).class.fields[i].value :
        i \in {j \in 1 .. Len(NodeAt(map, h).class.fields) :
                  NodeAt(map, h).class.fields[j].type = t}}

\* Handles in the order their nodes were created: every create_node draws a
\* greater token.
InCreationOrder(hs) == \A k \in 1 .. Len(hs) - 1 : hs[k].unique < hs[k + 1].unique

\* C16: nodes().with_class::<C>().handles() yields exactly the handles of the nodes
\* whose class is C, each once, in creation order, and no node of another class,
\* also not of one that declares the same component types.
C16_WithClassExact ==
    call.op = "with_class" =>
        /\ Range(call.result) = {h \in OwnHandles : NodeAt(nodes, h).class.name = call.arg}
        /\ InCreationOrder(call.result)

\* with_class::<Dog>() on a universe with a Cat created between two Dogs.
C16_Witness ==
    /\ call.op = "with_class"
    /\ call.arg = "Dog"
    /\ Len(call.result) = 2
    /\ \E h \in OwnHandles :
        /\ NodeAt(nodes, h).class.name = "Cat"
        /\ call.result[1].unique < h.unique
        /\ h.unique < call.result[2].unique

\* The position of the handle h in the sequence hs.
PositionIn(hs, h) == CHOOSE k \in 1 .. Len(hs) : hs[k] = h

\* C17: nodes().with_component::<C>() yields exactly the nodes whose class declares
\* a component of type C, each once, in the relative order of nodes().handles(),
\* each paired with a field of type C of its own.
C17_WithComponentExact ==
    call.op = "with_component" =>
        LET pairs == call.result
            hs == [k \in 1 .. Len(pairs) |-> pairs[k].handle]
            all == nodes_handles(nodes.values, 0)
        IN  /\ Range(hs) = {h \in OwnHandles : call.arg \in DeclaredTypes(nodes, h)}
            /\ NoDuplicates(hs)
            /\ \A k \in 1 .. Len(hs) - 1 : PositionIn(all, hs[k]) < PositionIn(all, hs[k + 1])
            /\ \A k \in 1 .. Len(pairs) :
                pairs[k].component \in OwnValues(nodes, pairs[k].handle, call.arg)

\* with_component::<Age>() that passed over a node without an Age and yielded two
\* nodes with different ages behind it.
C17_Witness ==
    /\ call.op = "with_component"
    /\ call.arg = "Age"
    /\ Len(call.result) = 2
    /\ call.result[1].component # call.result[2].component
    /\ \E h \in OwnHandles :
        /\ "Age" \notin DeclaredTypes(nodes, h)
        /\ h.unique < call.result[1].handle.unique

\* C19: Node::component::<C>() gives a field of type C of the node's own class value
\* when the class declares one and None otherwise, always None for the unit class;
\* nodes of different classes with the same component types give their own values.
C19_ComponentOwnField ==
    call.op = "component" =>
        LET h == call.arg[1]
            t == call.arg[2]
        IN  /\ IF t \in DeclaredTypes(nodes, h)
               THEN IsSome(call.result) /\ Unwrap(call.result) \in OwnValues(nodes, h, t)
               ELSE call.result = None
            /\ NodeAt(nodes, h).class.name = "()" => call.result = None

\* component::<Age>() of a Dog in a universe that also holds a Cat of another age.
C19_Witness ==
    /\ call.op = "component"
    /\ call.arg[2] = "Age"
    /\ NodeAt(nodes, call.arg[1]).class.name = "Dog"
    /\ call.result = Some("3")
    /\ \E h \in OwnHandles : NodeAt(nodes, h).class = Garfield

\* C20: no class value with two fields of one component type is instantiated, so
\* no node's component::<C>() has two fields to choose from.
C20_NoDuplicateComponentTypes ==
    \A h \in OwnHandles, t \in ComponentTypes :
        Cardinality({i \in 1 .. Len(NodeAt(nodes, h).class.fields) :
                        NodeAt(nodes, h).class.fields[i].type = t}) <= 1

----------------------------------------------------------------------------
(* Properties of the batch lookups. *)

\* What the handle h resolves to in the universe: its node, or nothing.
Resolved(map, h) ==
    IF HandleValid(map.values, h) THEN Some(NodeAt(map, h)) ELSE None

\* C18: nodes_with_handles(hs) and using_nodes_with_handles_mut(hs, f) give one
\* result per handle of hs, in the order of hs: the node hs[i] resolves to (or f of
\* it), and nothing (or f of nothing) when hs[i] does not resolve; equal handles are
\* not collapsed.
C18_OneResultPerHandle ==
    call.op \in {"nodes_with_handles", "using_nodes_with_handles_mut"} =>
        LET hs == call.arg
        IN  /\ ~call.panic
            /\ Len(call.result) = Len(hs)
            /\ \A i \in 1 .. Len(hs) :
                call.result[i] = IF call.op = "nodes_with_handles"
                                 THEN Resolved(nodes, hs[i])
                                 ELSE f(Resolved(nodes, hs[i]))

====
